---------------------------- MODULE Spec2Model ----------------------------
(***************************************************************************)
(* A model of pycosm: the CosmDataStream client (src/pycosm.py) and the    *)
(* cosm-feed command line (src/cosm-feed.py).                              *)
(*                                                                         *)
(* Spec    : a client object and the calls made on it.                     *)
(* CliSpec : one run of cosm-feed.py's main() on an argument vector.       *)
(***************************************************************************)
EXTENDS Naturals, Sequences, FiniteSets, TLC

VARIABLES
    feed_id,        \* CosmDataStream.feed_id
    datastream_id,  \* CosmDataStream.datastream_id
    api_key,        \* CosmDataStream.api_key
    op,             \* the method called last ("none" before any call)
    body_content,   \* the body handed to put()/post() by the last call
    datapoints,     \* the dictionary handed to postDatapointsDict()
    outcome,        \* how the last call ended: "return" or the exception raised
    result,         \* what the last call returned
    wire,           \* the connection.request() calls made during the last call
    response,       \* what the server answered during the last call, if it did
    connections,    \* HTTPSConnection objects created so far
    argv,           \* cosm-feed.py: sys.argv[1:]
    pc,             \* cosm-feed.py: position in the run
    opts,           \* cosm-feed.py: main's opts
    main_datastream_id, \* cosm-feed.py: main's local datastream_id
    main_api_key,   \* cosm-feed.py: main's local api_key
    returned,       \* cosm-feed.py: how main() ended
    stdout,         \* cosm-feed.py: what was printed to sys.stdout
    stderr,         \* cosm-feed.py: what was printed to sys.stderr
    cli_wire,       \* cosm-feed.py: the requests made during the run
    exit_status     \* cosm-feed.py: the process's exit status

clientVars == <<feed_id, datastream_id, api_key, op, body_content, datapoints,
                outcome, result, wire, response, connections>>
cliVars == <<argv, pc, opts, main_datastream_id, main_api_key, returned,
             stdout, stderr, cli_wire, exit_status>>
vars == <<clientVars, cliVars>>

-----------------------------------------------------------------------------
(* Bounds of the model *)

\* the largest dictionary handed to postDatapointsDict
MaxPoints == 2
\* the number of members of the largest JSON object a server answers with
MaxMembers == 1
\* the number of calls made on one client object
MaxCalls == 2
\* the number of words on the command line
MaxArgs == 4

-----------------------------------------------------------------------------
(* Python values *)

\* Python's None; no string of the model is equal to it
None == "<None>"

\* "%s" % x
Str(x) == IF x = None THEN "None" ELSE x

Min(a, b) == IF a < b THEN a ELSE b

\* every ordering of the elements of a finite set
Orders(S) == {s \in [1..Cardinality(S) -> S] : \A i, j \in 1..Cardinality(S) : i # j => s[i] # s[j]}

-----------------------------------------------------------------------------
(* JSON.  A text is the sequence of its tokens (white space carries nothing); *)
(* a decoded value is a Python unicode string, list or dict.                   *)

Punct(c) == [p |-> c]
StrTok(s) == [s |-> s]
IsStrTok(t) == DOMAIN t = {"s"}

PyStr(s) == [str |-> s]
PyList(l) == [list |-> l]
PyDict(d) == [dict |-> d]
IsPyStr(v) == DOMAIN v = {"str"}
IsPyList(v) == DOMAIN v = {"list"}

\* the keys of the dictionaries that json.dumps is handed
DumpKeys == {"datapoints", "at", "value"}
\* the orders in which a Python 2 dict may hand out those keys; "datapoints" is
\* the only key of its dict, so its place among the others never shows
KeyOrders == {ko \in Orders(DumpKeys) : ko[1] = "datapoints"}

RECURSIVE Dumps(_, _)
RECURSIVE DumpItems(_, _)
RECURSIVE DumpMembers(_, _, _)

\* the elements of a list, separated by commas
DumpItems(l, ko) ==
    IF l = <<>> THEN <<>>
    ELSE Dumps(Head(l), ko)
         \o (IF Tail(l) = <<>> THEN <<>> ELSE <<Punct(",")>> \o DumpItems(Tail(l), ko))

\* the members of dict d whose keys are listed in ks, in that order
DumpMembers(d, ks, ko) ==
    IF ks = <<>> THEN <<>>
    ELSE <<StrTok(Head(ks)), Punct(":")>> \o Dumps(d[Head(ks)], ko)
         \o (IF Tail(ks) = <<>> THEN <<>> ELSE <<Punct(",")>> \o DumpMembers(d, Tail(ks), ko))

\* json.dumps(v), with the dicts' keys iterated in the order ko
Dumps(v, ko) ==
    IF IsPyStr(v) THEN <<StrTok(v.str)>>
    ELSE IF IsPyList(v) THEN <<Punct("[")>> \o DumpItems(v.list, ko) \o <<Punct("]")>>
    ELSE <<Punct("{")>>
         \o DumpMembers(v.dict, SelectSeq(ko, LAMBDA k : k \in DOMAIN v.dict), ko)
         \o <<Punct("}")>>

\* a decoder's answer: a value and the tokens after it, or a failure
Decoded(v, rest) == [ok |-> TRUE, val |-> v, rest |-> rest]
Undecodable == [ok |-> FALSE, val |-> PyStr(""), rest |-> <<>>]

RECURSIVE ParseValue(_)
RECURSIVE ParseMembers(_, _)
RECURSIVE ParseItems(_, _)

\* the members of an object after its "{" or after a ","
ParseMembers(toks, acc) ==
    IF Len(toks) < 2 \/ ~IsStrTok(toks[1]) \/ toks[2] # Punct(":") THEN Undecodable
    ELSE LET key == toks[1].s
             v == ParseValue(SubSeq(toks, 3, Len(toks)))
             d == [k \in DOMAIN acc \cup {key} |-> IF k = key THEN v.val ELSE acc[k]]
         IN  IF ~v.ok \/ v.rest = <<>> THEN Undecodable
             ELSE IF Head(v.rest) = Punct("}") THEN Decoded(PyDict(d), Tail(v.rest))
             ELSE IF Head(v.rest) = Punct(",") THEN ParseMembers(Tail(v.rest), d)
             ELSE Undecodable

\* the elements of an array after its "[" or after a ","
ParseItems(toks, acc) ==
    LET v == ParseValue(toks)
    IN  IF ~v.ok \/ v.rest = <<>> THEN Undecodable
        ELSE IF Head(v.rest) = Punct("]") THEN Decoded(PyList(Append(acc, v.val)), Tail(v.rest))
        ELSE IF Head(v.rest) = Punct(",") THEN ParseItems(Tail(v.rest), Append(acc, v.val))
        ELSE Undecodable

\* one JSON value at the head of toks
ParseValue(toks) ==
    IF toks = <<>> THEN Undecodable
    ELSE IF IsStrTok(Head(toks)) THEN Decoded(PyStr(Head(toks).s), Tail(toks))
    ELSE IF Head(toks) = Punct("{") THEN
        IF Len(toks) >= 2 /\ toks[2] = Punct("}")
        THEN Decoded(PyDict(<<>>), SubSeq(toks, 3, Len(toks)))
        ELSE ParseMembers(Tail(toks), <<>>)
    ELSE IF Head(toks) = Punct("[") THEN
        IF Len(toks) >= 2 /\ toks[2] = Punct("]")
        THEN Decoded(PyList(<<>>), SubSeq(toks, 3, Len(toks)))
        ELSE ParseItems(Tail(toks), <<>>)
    ELSE Undecodable

\* a faulty json.loads that stops at the end of the first value and takes no
\* notice of what follows it
LoadsIgnoringTrailing(toks) ==
    LET v == ParseValue(toks)
    IN  IF v.ok THEN Decoded(v.val, <<>>) ELSE Undecodable

\* json.loads(toks): the whole text is one value, or ValueError
Loads(toks) ==
    LET v == ParseValue(toks)
    IN  IF v.ok /\ v.rest = <<>> THEN v ELSE Undecodable

-----------------------------------------------------------------------------
(* The server and the transport *)

\* what a JSON object answered by the server may hold
MemberPool == {<<"id", "unittest">>, <<"id", "42">>, <<"current_value", "42">>}
MemberLists == UNION {[1..n -> MemberPool] : n \in 0..MaxMembers}

RECURSIVE MemberTokens(_)
MemberTokens(ms) ==
    IF ms = <<>> THEN <<>>
    ELSE <<StrTok(Head(ms)[1]), Punct(":"), StrTok(Head(ms)[2])>>
         \o (IF Tail(ms) = <<>> THEN <<>> ELSE <<Punct(",")>> \o MemberTokens(Tail(ms)))

\* the text of the JSON object with the members ms, as a server writes it
ObjectText(ms) == <<Punct("{")>> \o MemberTokens(ms) \o <<Punct("}")>>

\* the dict that text stands for (RFC 4627; of a repeated key the last wins)
Meaning(ms) ==
    [k \in {ms[i][1] : i \in 1..Len(ms)} |->
        PyStr(ms[CHOOSE i \in 1..Len(ms) :
                    /\ ms[i][1] = k
                    /\ \A j \in 1..Len(ms) : ms[j][1] = k => j <= i][2])]

WellFormed == {ObjectText(ms) : ms \in MemberLists}
\* a text cut short, and a text with something after it
Truncated == UNION {{SubSeq(t, 1, n) : n \in 0..(Len(t) - 1)} : t \in WellFormed}
Trailing == {t \o <<x>> : t \in WellFormed, x \in {Punct("}"), Punct(","), StrTok("id")}}
ResponseBodies == WellFormed \cup Truncated \cup Trailing

\* what the network does with one request: the request fails to be sent, the
\* response fails to arrive, or a response arrives
Nets ==
    {[fail |-> f, status |-> 200, body |-> <<>>] : f \in {"request", "getresponse"}}
    \cup {[fail |-> "none", status |-> st, body |-> b] : st \in {200, 401}, b \in ResponseBodies}

-----------------------------------------------------------------------------
(* CosmDataStream *)

FeedIds == {"59484"}
StreamIds == {"unittest"}
ApiKeys == {"RJcgiqm"}

\* CosmDataStream(feed_id, datastream_id, api_key)
CosmDataStream(f, d, k) == [feed_id |-> f, datastream_id |-> d, api_key |-> k]

\* what a method returns when its body ends without a value
PyNone == [none |-> TRUE]

\* the effect of a call: the object afterwards, how the call ended, what it
\* returned, the requests it made, the response it read and the connections
\* it created
Raised(self, exc) ==
    [self |-> self, outcome |-> exc, result |-> PyNone, wire |-> <<>>,
     response |-> <<>>, opened |-> 0]

\* a faulty exchange that tries once more, on a second connection, when the
\* transport fails
ExchangeRetrying(self, req, net) ==
    [self |-> self,
     outcome |-> IF net.fail = "none" THEN "return" ELSE "TransportError",
     result |-> IF net.fail = "none" THEN [status |-> net.status, body |-> net.body] ELSE PyNone,
     wire |-> IF net.fail = "none" THEN <<req>> ELSE <<req, [req EXCEPT !.conn = req.conn + 1]>>,
     response |-> IF net.fail = "none" THEN <<[status |-> net.status, body |-> net.body]>> ELSE <<>>,
     opened |-> IF net.fail = "none" THEN 1 ELSE 2]

\* one HTTPSConnection("api.cosm.com", 443), one request on it, getresponse();
\* "except: raise" hands on whatever the transport raises
Exchange(self, req, net) ==
    [self |-> self,
     outcome |-> IF net.fail = "none" THEN "return" ELSE "TransportError",
     result |-> IF net.fail = "none" THEN [status |-> net.status, body |-> net.body] ELSE PyNone,
     wire |-> <<req>>,
     response |-> IF net.fail = "none" THEN <<[status |-> net.status, body |-> net.body]>> ELSE <<>>,
     opened |-> 1]

Headers(self) ==
    [h \in {"X-ApiKey", "Accept"} |-> IF h = "X-ApiKey" THEN self.api_key ELSE "application/json"]

GetRequest(self, conn) ==
    [method |-> "GET", host |-> "api.cosm.com",
     path |-> "/v2/feeds/" \o Str(self.feed_id) \o "/datastreams/" \o Str(self.datastream_id),
     body |-> <<>>, headers |-> Headers(self), conn |-> conn]

PutRequest(self, body, conn) ==
    [method |-> "PUT", host |-> "api.cosm.com",
     path |-> "/v2/feeds/" \o Str(self.feed_id) \o "/datastreams/" \o Str(self.datastream_id),
     body |-> <<body>>, headers |-> Headers(self), conn |-> conn]

\* a faulty POST request, sent to the datastream itself
PostRequestToDatastream(self, body, conn) ==
    [method |-> "POST", host |-> "api.cosm.com",
     path |-> "/v2/feeds/" \o Str(self.feed_id) \o "/datastreams/" \o Str(self.datastream_id),
     body |-> <<body>>, headers |-> Headers(self), conn |-> conn]

PostRequest(self, body, conn) ==
    [method |-> "POST", host |-> "api.cosm.com",
     path |-> "/v2/feeds/" \o Str(self.feed_id) \o "/datastreams/" \o Str(self.datastream_id)
              \o "/datapoints",
     body |-> <<body>>, headers |-> Headers(self), conn |-> conn]

get(self, net, conn) ==
    IF self.feed_id # None
    THEN Exchange(self, GetRequest(self, conn), net)
    ELSE Raised(self, "StreamIdError")

getDict(self, net, conn) ==
    LET r == get(self, net, conn)
    IN  IF r.outcome # "return" THEN r
        ELSE LET state == Loads(r.result.body)
             IN  IF state.ok THEN [r EXCEPT !.result = state.val]
                 ELSE [r EXCEPT !.outcome = "ValueError", !.result = PyNone]

put(self, body, net, conn) ==
    IF self.feed_id # None /\ self.datastream_id # None
    THEN Exchange(self, PutRequest(self, body, conn), net)
    ELSE Raised(self, "StreamIdError")

post(self, body, net, conn) ==
    IF self.feed_id # None
    THEN Exchange(self, PostRequest(self, body, conn), net)
    ELSE Raised(self, "StreamIdError")

\* a faulty loop that takes the value for the timestamp and the timestamp for
\* the value
AppendDatapointsSwapped(list, dps, keys) ==
    list \o [i \in 1..Len(keys) |->
                PyDict([k \in {"at", "value"} |->
                           IF k = "at" THEN PyStr(dps[keys[i]]) ELSE PyStr(keys[i])])]

\* the for loop of postDatapointsDict over datapoints.keys()
RECURSIVE AppendDatapoints(_, _, _)
AppendDatapoints(list, dps, keys) ==
    IF keys = <<>> THEN list
    ELSE AppendDatapoints(
            Append(list, PyDict([k \in {"at", "value"} |->
                                    IF k = "at" THEN PyStr(Head(keys)) ELSE PyStr(dps[Head(keys)])])),
            dps, Tail(keys))

\* keys: datapoints.keys(); ko: the order of the keys of the dicts dumped
postDatapointsDict(self, dps, keys, ko, net, conn) ==
    LET datapointsDict == PyDict([k \in {"datapoints"} |-> PyList(AppendDatapoints(<<>>, dps, keys))])
    IN  post(self, Dumps(datapointsDict, ko), net, conn)

\* a faulty delete that does submit a DELETE request
deleteSubmitting(self) ==
    [self |-> self, outcome |-> "return", result |-> PyNone,
     wire |-> <<[method |-> "DELETE", host |-> "api.cosm.com",
                 path |-> "/v2/feeds/" \o Str(self.feed_id) \o "/datastreams/" \o Str(self.datastream_id),
                 body |-> <<>>, headers |-> Headers(self), conn |-> 0]>>,
     response |-> <<>>, opened |-> 0]

delete(self) ==
    [self |-> self, outcome |-> "return", result |-> PyNone, wire |-> <<>>,
     response |-> <<>>, opened |-> 0]

-----------------------------------------------------------------------------
(* The calls made on a client object *)

\* the bodies a caller hands to put() and post()
CallerBodies == {ObjectText(<<<<"current_value", "42">>>>), <<Punct("{")>>, <<>>}

\* the dictionaries a caller hands to postDatapointsDict()
TimestampPool == <<"2013-01-14T12:00:00Z", "2013-01-14T12:05:00Z", "2013-01-14T12:10:00Z",
                   "2013-01-14T12:15:00Z", "2013-01-14T12:20:00Z">>
Timestamps == {TimestampPool[i] : i \in 1..Min(MaxPoints, Len(TimestampPool))}
DatapointValues == {"30", "35"}
DatapointDicts == UNION {[D -> DatapointValues] : D \in SUBSET Timestamps}

Self == CosmDataStream(feed_id, datastream_id, api_key)

\* a caller is between two calls, and has calls left
Ready == op = "none" /\ connections < MaxCalls

\* the state after the call of method name with effect e
Called(name, body, dps, e) ==
    /\ op' = name
    /\ body_content' = body
    /\ datapoints' = dps
    /\ feed_id' = e.self.feed_id
    /\ datastream_id' = e.self.datastream_id
    /\ api_key' = e.self.api_key
    /\ outcome' = e.outcome
    /\ result' = e.result
    /\ wire' = e.wire
    /\ response' = e.response
    /\ connections' = connections + e.opened
    /\ UNCHANGED cliVars

Get ==
    /\ Ready
    /\ \E net \in Nets : Called("get", <<>>, <<>>, get(Self, net, connections + 1))

GetDict ==
    /\ Ready
    /\ \E net \in Nets : Called("getDict", <<>>, <<>>, getDict(Self, net, connections + 1))

Put ==
    /\ Ready
    /\ \E body \in CallerBodies, net \in Nets :
          Called("put", body, <<>>, put(Self, body, net, connections + 1))

Post ==
    /\ Ready
    /\ \E body \in CallerBodies, net \in Nets :
          Called("post", body, <<>>, post(Self, body, net, connections + 1))

PostDatapointsDict ==
    /\ Ready
    /\ \E dps \in DatapointDicts, net \in Nets, ko \in KeyOrders :
          \E keys \in Orders(DOMAIN dps) :
             Called("postDatapointsDict", <<>>, dps,
                    postDatapointsDict(Self, dps, keys, ko, net, connections + 1))

Delete ==
    /\ Ready
    /\ Called("delete", <<>>, <<>>, delete(Self))

\* the caller has taken the result (or caught the exception) of the last call
Return ==
    /\ op # "none"
    /\ op' = "none"
    /\ body_content' = <<>>
    /\ datapoints' = <<>>
    /\ outcome' = "none"
    /\ result' = PyNone
    /\ wire' = <<>>
    /\ response' = <<>>
    /\ UNCHANGED <<feed_id, datastream_id, api_key, connections, cliVars>>

\* no call made yet
NoCall ==
    /\ op = "none"
    /\ body_content = <<>>
    /\ datapoints = <<>>
    /\ outcome = "none"
    /\ result = PyNone
    /\ wire = <<>>
    /\ response = <<>>
    /\ connections = 0

\* cosm-feed.py is not running
CliOff ==
    /\ argv = <<>>
    /\ pc = "off"
    /\ opts = <<>>
    /\ main_datastream_id = None
    /\ main_api_key = None
    /\ returned = "none"
    /\ stdout = <<>>
    /\ stderr = <<>>
    /\ cli_wire = <<>>
    /\ exit_status = 0

\* a client object as __init__ leaves it, for any arguments
Init ==
    /\ \E f \in FeedIds \cup {None}, d \in StreamIds \cup {None}, k \in ApiKeys \cup {None} :
          /\ feed_id = CosmDataStream(f, d, k).feed_id
          /\ datastream_id = CosmDataStream(f, d, k).datastream_id
          /\ api_key = CosmDataStream(f, d, k).api_key
    /\ NoCall
    /\ CliOff

Next == Get \/ GetDict \/ Put \/ Post \/ PostDatapointsDict \/ Delete \/ Return

Spec == Init /\ [][Next]_vars

-----------------------------------------------------------------------------
(* Properties of the client *)

RequestOps == {"get", "put", "post", "postDatapointsDict"}

\* C1: whenever get() is called with the datastream identifier unset, whatever
\* the feed identifier and the API key, it raises StreamIdError and makes no
\* request.
C1_GetWithoutStreamIdRaises ==
    (op = "get" /\ datastream_id = None) => (outcome = "StreamIdError" /\ wire = <<>>)

\* C2: put(), post() and postDatapointsDict() raise StreamIdError and make no
\* request whenever the feed identifier or the datastream identifier is unset;
\* a request is made only with both identifiers set.
C2_NoRequestWithoutBothIds ==
    op \in {"put", "post", "postDatapointsDict"} =>
        /\ (feed_id = None \/ datastream_id = None) => (outcome = "StreamIdError" /\ wire = <<>>)
        /\ wire # <<>> => (feed_id # None /\ datastream_id # None)

\* the element of the submitted list that stands for the entry ts of the
\* dictionary handed to postDatapointsDict
Datapoint(ts) ==
    PyDict([k \in {"at", "value"} |-> IF k = "at" THEN PyStr(ts) ELSE PyStr(datapoints[ts])])

C9_OneRequestPerCallNoRetry ==
    [][(op = "none" /\ op' \in RequestOps) =>
          /\ Len(wire') <= 1
          /\ (feed_id # None /\ datastream_id # None) => Len(wire') = 1
          /\ connections' = connections + Len(wire')
          /\ \A i \in 1..Len(wire') : wire'[i].conn > connections
          /\ (wire' # <<>> /\ response' = <<>>) => outcome' = "TransportError"
          /\ outcome' = "TransportError" => (Len(wire') = 1 /\ result' = PyNone)]_vars

\* a post() has ended with the transport's exception, after a single request
C9_Witness ==
    op = "post" /\ outcome = "TransportError" /\ Len(wire) = 1 /\ connections = 2

\* C10: with both identifiers set, get() and put() request
\* /v2/feeds/{feed}/datastreams/{stream} and post() requests that path followed
\* by /datapoints; each request carries the client's API key as X-ApiKey and
\* Accept: application/json, and put() and post() send the caller's body as it
\* was handed to them.
C10_PathsHeadersAndBody ==
    (op \in {"get", "put", "post"} /\ feed_id # None /\ datastream_id # None) =>
        /\ Len(wire) = 1
        /\ wire[1].method = (CASE op = "get" -> "GET" [] op = "put" -> "PUT" [] op = "post" -> "POST")
        /\ wire[1].path = "/v2/feeds/" \o feed_id \o "/datastreams/" \o datastream_id
                          \o (IF op = "post" THEN "/datapoints" ELSE "")
        /\ DOMAIN wire[1].headers = {"X-ApiKey", "Accept"}
        /\ wire[1].headers["X-ApiKey"] = api_key
        /\ wire[1].headers["Accept"] = "application/json"
        /\ wire[1].body = (IF op = "get" THEN <<>> ELSE <<body_content>>)

\* a post() with both identifiers and a key set has been answered
C10_Witness ==
    /\ op = "post"
    /\ feed_id # None /\ datastream_id # None /\ api_key # None
    /\ outcome = "return"
    /\ body_content # <<>>

-----------------------------------------------------------------------------
(* cosm-feed.py.  A word of the command line is the sequence of its        *)
(* characters, so that getopt can take it apart.                            *)

\* the string that a sequence of characters spells
RECURSIVE Text(_)
Text(w) == IF w = <<>> THEN "" ELSE Head(w) \o Text(Tail(w))

\* s.startswith(pre)
StartsWith(s, pre) == Len(pre) <= Len(s) /\ SubSeq(s, 1, Len(pre)) = pre

\* s.index(c), or 0 where Python raises ValueError
Index(s, c) ==
    IF \E i \in 1..Len(s) : s[i] = c
    THEN CHOOSE i \in 1..Len(s) : s[i] = c /\ \A j \in 1..(i - 1) : s[j] # c
    ELSE 0

\* the words a command line is made of
Words == {
    <<"-", "s">>, <<"-", "k">>,
    <<"7">>, <<"K">>,
    <<"-", "-", "s", "t", "r", "e", "a", "m", "i", "d", "=", "7">>, <<"-", "-", "a", "p", "i", "k", "e", "y", "=", "K">>,
    <<"-", "h">>, <<"-", "v">>,
    <<"-", "-", "a", "p", "i", "=", "K">>}

\* getopt's second and third arguments: "ho:vs:k:" and
\* ["help", "output=", "datastream_id=", "api_key="]
shortopts == <<"h", "o", ":", "v", "s", ":", "k", ":">>
longopts == <<<<"h", "e", "l", "p">>,
              <<"o", "u", "t", "p", "u", "t", "=">>,
              <<"d", "a", "t", "a", "s", "t", "r", "e", "a", "m", "_", "i", "d", "=">>,
              <<"a", "p", "i", "_", "k", "e", "y", "=">>>>

\* what getopt.getopt returns, and the GetoptError it raises
Parsed(o, a) == [error |-> "", opts |-> o, args |-> a]
GetoptError(msg) == [error |-> msg, opts |-> <<>>, args |-> <<>>]

\* getopt.long_has_args: [error, has_arg, opt]
long_has_args(opt, lopts) ==
    LET possibilities == SelectSeq(lopts, LAMBDA o : StartsWith(o, opt))
        exact == \E i \in 1..Len(possibilities) : possibilities[i] = opt
        exactArg == \E i \in 1..Len(possibilities) : possibilities[i] = opt \o <<"=">>
        unique_match == possibilities[1]
        has_arg == unique_match[Len(unique_match)] = "="
    IN  IF possibilities = <<>>
        THEN [error |-> "option --" \o Text(opt) \o " not recognized", has_arg |-> FALSE, opt |-> opt]
        ELSE IF exact THEN [error |-> "", has_arg |-> FALSE, opt |-> opt]
        ELSE IF exactArg THEN [error |-> "", has_arg |-> TRUE, opt |-> opt]
        ELSE IF Len(possibilities) > 1
        THEN [error |-> "option --" \o Text(opt) \o " not a unique prefix", has_arg |-> FALSE, opt |-> opt]
        ELSE [error |-> "", has_arg |-> has_arg,
              opt |-> IF has_arg THEN SubSeq(unique_match, 1, Len(unique_match) - 1) ELSE unique_match]

\* getopt.do_longs; opt is the word after its "--"
do_longs(o, opt, lopts, args) ==
    LET i == Index(opt, "=")
        name == IF i = 0 THEN opt ELSE SubSeq(opt, 1, i - 1)
        h == long_has_args(name, lopts)
    IN  IF h.error # "" THEN GetoptError(h.error)
        ELSE IF h.has_arg /\ i = 0 /\ args = <<>>
        THEN GetoptError("option --" \o Text(h.opt) \o " requires argument")
        ELSE IF ~h.has_arg /\ i # 0
        THEN GetoptError("option --" \o Text(h.opt) \o " must not have an argument")
        ELSE LET optarg == IF i # 0 THEN SubSeq(opt, i + 1, Len(opt))
                           ELSE IF h.has_arg THEN Head(args) ELSE <<>>
             IN  Parsed(Append(o, <<"--" \o Text(h.opt), Text(optarg)>>),
                        IF h.has_arg /\ i = 0 THEN Tail(args) ELSE args)

\* getopt.short_has_arg: "yes", "no" or "unknown" where Python raises GetoptError
short_has_arg(opt, sopts) ==
    IF opt # ":" /\ \E i \in 1..Len(sopts) : sopts[i] = opt
    THEN LET i == Index(sopts, opt)
         IN  IF i < Len(sopts) /\ sopts[i + 1] = ":" THEN "yes" ELSE "no"
    ELSE "unknown"

\* getopt.do_shorts; optstring is the word after its "-"
RECURSIVE do_shorts(_, _, _, _)
do_shorts(o, optstring, sopts, args) ==
    IF optstring = <<>> THEN Parsed(o, args)
    ELSE LET opt == Head(optstring)
             rest == Tail(optstring)
             has == short_has_arg(opt, sopts)
         IN  IF has = "unknown" THEN GetoptError("option -" \o opt \o " not recognized")
             ELSE IF has = "no" THEN do_shorts(Append(o, <<"-" \o opt, "">>), rest, sopts, args)
             ELSE IF rest = <<>> /\ args = <<>> THEN GetoptError("option -" \o opt \o " requires argument")
             ELSE IF rest = <<>> THEN Parsed(Append(o, <<"-" \o opt, Text(Head(args))>>), Tail(args))
             ELSE Parsed(Append(o, <<"-" \o opt, Text(rest)>>), args)

\* getopt.getopt(args, shortopts, longopts), from the options found so far
RECURSIVE getopt_from(_, _, _, _)
getopt_from(o, args, sopts, lopts) ==
    IF args = <<>> \/ ~StartsWith(Head(args), <<"-">>) \/ Head(args) = <<"-">> THEN Parsed(o, args)
    ELSE IF Head(args) = <<"-", "-">> THEN Parsed(o, Tail(args))
    ELSE LET r == IF StartsWith(Head(args), <<"-", "-">>)
                  THEN do_longs(o, SubSeq(Head(args), 3, Len(Head(args))), lopts, Tail(args))
                  ELSE do_shorts(o, Tail(Head(args)), sopts, Tail(args))
         IN  IF r.error # "" THEN r ELSE getopt_from(r.opts, r.args, sopts, lopts)

getopt(args, sopts, lopts) == getopt_from(<<>>, args, sopts, lopts)

help_message == "Usage: cosm-feed.py [options]"

\* main's "option processing" loop over opts, from the locals l
RECURSIVE option_processing(_, _)
option_processing(os, l) ==
    IF os = <<>> THEN l
    ELSE LET option == Head(os)[1]
             value == Head(os)[2]
         IN  IF option \in {"-h", "--help"} THEN [l EXCEPT !.usage = help_message]
             ELSE option_processing(Tail(os),
                     [l EXCEPT !.datastream_id = IF option \in {"-s", "--streamid"} THEN value ELSE @,
                               !.api_key = IF option \in {"-k", "--apikey"} THEN value ELSE @])

\* the names bound in cosm-feed.py when main runs
ModuleNames == {"sys", "getopt", "pycosm", "help_message", "Usage", "main"}

\* "except Usage, err" of main: two lines on sys.stderr, and main returns 2
UsageReturn(msg) ==
    /\ stderr' = <<"cosm-feed.py: " \o msg, "\t for help use --help">>
    /\ returned' = "2"
    /\ pc' = "exit"

\* main, to the end of the getopt call
Getopt ==
    /\ pc = "getopt"
    /\ LET g == getopt(argv, shortopts, longopts)
       IN  IF g.error # ""
           THEN UsageReturn(g.error) /\ UNCHANGED opts
           ELSE /\ opts' = g.opts
                /\ pc' = "options"
                /\ UNCHANGED <<stderr, returned>>
    /\ UNCHANGED <<clientVars, argv, main_datastream_id, main_api_key, stdout, cli_wire, exit_status>>

\* main's option processing
ProcessOptions ==
    /\ pc = "options"
    /\ LET l == option_processing(opts, [usage |-> "", datastream_id |-> None, api_key |-> None])
       IN  /\ main_datastream_id' = l.datastream_id
           /\ main_api_key' = l.api_key
           /\ IF l.usage # ""
              THEN UsageReturn(l.usage)
              ELSE pc' = "query" /\ UNCHANGED <<stderr, returned>>
    /\ UNCHANGED <<clientVars, argv, opts, stdout, cli_wire, exit_status>>

\* main, from "if datastream_id is not None and api_key is not None" on; an
\* exception that main does not catch ends it
Query ==
    /\ pc = "query"
    /\ pc' = "exit"
    /\ IF main_datastream_id # None /\ main_api_key # None
       THEN IF "cosm" \in ModuleNames
            THEN \E net \in Nets :
                    LET connection == CosmDataStream(main_datastream_id, main_api_key, None)
                        state == getDict(connection, net, 1)
                    IN  /\ cli_wire' = state.wire
                        /\ IF state.outcome = "return"
                           THEN /\ stdout' = <<"datastream ID: " \o main_datastream_id,
                                               "API key: " \o main_api_key, "state: ">>
                                /\ returned' = "None"
                           ELSE /\ returned' = state.outcome
                                /\ UNCHANGED stdout
            ELSE /\ returned' = "NameError"
                 /\ UNCHANGED <<stdout, cli_wire>>
       ELSE /\ stdout' = <<"Error: a stream ID and API key must be specified">>
            /\ returned' = "None"
            /\ UNCHANGED cli_wire
    /\ UNCHANGED <<clientVars, argv, opts, main_datastream_id, main_api_key, stderr, exit_status>>

\* the status sys.exit(main()) ends the process with: main's integer, 0 for
\* None, and 1 when main ended with an exception
ExitStatus(r) == IF r = "2" THEN 2 ELSE IF r = "None" THEN 0 ELSE 1

SysExit ==
    /\ pc = "exit"
    /\ pc' = "done"
    /\ exit_status' = ExitStatus(returned)
    /\ UNCHANGED <<clientVars, argv, opts, main_datastream_id, main_api_key, returned,
                   stdout, stderr, cli_wire>>

\* the command lines run
Argvs == UNION {[1..n -> Words] : n \in 0..MaxArgs}

CliInit ==
    /\ feed_id = None
    /\ datastream_id = None
    /\ api_key = None
    /\ NoCall
    /\ argv \in Argvs
    /\ pc = "getopt"
    /\ opts = <<>>
    /\ main_datastream_id = None
    /\ main_api_key = None
    /\ returned = "none"
    /\ stdout = <<>>
    /\ stderr = <<>>
    /\ cli_wire = <<>>
    /\ exit_status = 0

CliNext == Getopt \/ ProcessOptions \/ Query \/ SysExit

CliSpec == CliInit /\ [][CliNext]_vars

-----------------------------------------------------------------------------
(* Properties of cosm-feed.py *)

\* C6: a run without a stream id or without an API key makes no request,
\* prints an error and exits with status 2; the exit status is 0 only when
\* both were given.
C6_MissingOptionExitsWithStatus2 ==
    pc = "done" =>
        /\ (main_datastream_id = None \/ main_api_key = None) =>
              /\ cli_wire = <<>>
              /\ (stdout # <<>> \/ stderr # <<>>)
              /\ exit_status = 2
        /\ exit_status = 0 => (main_datastream_id # None /\ main_api_key # None)

\* the command line with --streamid=V written as -s V and --apikey=V as -k V
RECURSIVE ShortForm(_)
ShortForm(args) ==
    IF args = <<>> THEN <<>>
    ELSE LET w == Head(args)
             i == Index(w, "=")
             long == IF i = 0 THEN <<>> ELSE SubSeq(w, 1, i)
         IN  (IF long = <<"-", "-", "s", "t", "r", "e", "a", "m", "i", "d", "=">> THEN <<<<"-", "s">>, SubSeq(w, i + 1, Len(w))>>
              ELSE IF long = <<"-", "-", "a", "p", "i", "k", "e", "y", "=">> THEN <<<<"-", "k">>, SubSeq(w, i + 1, Len(w))>>
              ELSE <<w>>)
             \o ShortForm(Tail(args))

\* what main's try block leaves for a command line: the Usage message if any,
\* and the locals datastream_id and api_key
TryBlock(args) ==
    LET g == getopt(args, shortopts, longopts)
    IN  IF g.error # "" THEN [usage |-> g.error, datastream_id |-> None, api_key |-> None]
        ELSE option_processing(g.opts, [usage |-> "", datastream_id |-> None, api_key |-> None])

\* C7: a run that uses --streamid and --apikey sets the same stream id and API
\* key, and ends the same way, as the run that uses -s and -k in their place.
C7_LongOptionsAreTheShortOnes ==
    pc = "done" =>
        LET short == TryBlock(ShortForm(argv))
        IN  /\ main_datastream_id = short.datastream_id
            /\ main_api_key = short.api_key
            /\ (returned = "2") = (short.usage # "")

\* C8: a run given a stream id S and an API key K makes exactly one request, a
\* GET for stream S that carries K as X-ApiKey.
C8_OneGetForTheStreamWithTheKey ==
    (pc = "done" /\ main_datastream_id # None /\ main_api_key # None) =>
        /\ Len(cli_wire) = 1
        /\ cli_wire[1].method = "GET"
        /\ cli_wire[1].path \in
              {"/v2/feeds/" \o main_datastream_id,
               "/v2/feeds/" \o main_datastream_id \o "/datastreams/" \o main_datastream_id,
               "/v2/feeds/None/datastreams/" \o main_datastream_id}
        /\ cli_wire[1].headers["X-ApiKey"] = main_api_key

=============================================================================
